---- MODULE Spec2Model ----
(***************************************************************************)
(* ii.py: a branching text tree (Node, Tree), the current stream through   *)
(* it, and the modal editor (Editor) driven by key and timer events.       *)
(*                                                                         *)
(* Nodes live in an arena: nodes[1] is the root, nodes[k] the k-th Node    *)
(* object constructed for the tree, children are arena indices.  Texts are *)
(* sequences of one-character strings.  A Python exception that leaves     *)
(* handle_keypress (or the interrupt handler) ends the process: raised.    *)
(***************************************************************************)
EXTENDS Integers, Sequences, FiniteSets, TLC

VARIABLES nodes, current_stream, node_id,
          reading_mode, selected_index, line_in_para,
          current_text, cursor_position, current_timer,
          raised, pc

vars == <<nodes, current_stream, node_id, reading_mode, selected_index,
          line_in_para, current_text, cursor_position, current_timer,
          raised, pc>>

----------------------------------------------------------------------------
(* Bounds of the model *)

\* non-root nodes of the tree in the editor specification
MaxNodes == 3
\* selected_index in the editor specification (next_para on an empty tree
\* increments it without limit)
MaxIndex == 4
\* non-root nodes of the tree in the Tree specification
MaxTreeNodes == 6
\* characters of the pending text in the text-editing specification
MaxEditText == 4

(* Program constants *)

\* ii.py:32, args.autoloop (the default): the timer events exist only then
initial_timer == 20
\* ii.py:199
column_width == 35

\* parent and parent_id of the root (Python None)
None == 0
NoneId == -1

\* characters typed in the editor specification / in the text-editing one
Chars == {"a"}
\* the pending texts of the editor specification: its fragments are one
\* character long (longer texts are those of the text-editing specification)
PendingTexts == {<<>>, <<"a">>}
\* the texts grow is given in the Tree specification
TreeTexts == {<<"a">>}
EditChars == {"a", "b"}
\* the letters handle_keypress gives a meaning to in reading mode
NavChars == {"j", "k", "h", "l"}

----------------------------------------------------------------------------
(* Python sequence primitives *)

Min(a, b) == IF a < b THEN a ELSE b
Max(a, b) == IF a > b THEN a ELSE b

\* s[k] is defined (no IndexError), k possibly negative
PyIndexOk(s, k) == k >= -Len(s) /\ k < Len(s)
\* s[k]
PyIndex(s, k) == IF k < 0 THEN s[Len(s) + k + 1] ELSE s[k + 1]
\* a slice bound k of a sequence of length n, as Python normalises it
PyBound(n, k) == IF k < 0 THEN Max(0, n + k) ELSE Min(n, k)
\* s[:k]
PySliceTo(s, k) == SubSeq(s, 1, PyBound(Len(s), k))
\* s[k:]
PySliceFrom(s, k) == SubSeq(s, PyBound(Len(s), k) + 1, Len(s))

----------------------------------------------------------------------------
(* utils.text_wrap *)

\* text.split(' ') continued: words found so far, the word being read
RECURSIVE split_from(_, _, _, _)
split_from(text, i, words, word) ==
    IF i > Len(text) THEN Append(words, word)
    ELSE IF text[i] = " " THEN split_from(text, i + 1, Append(words, word), <<>>)
    ELSE split_from(text, i + 1, words, Append(word, text[i]))

split(text) == split_from(text, 1, <<>>, <<>>)

\* the body of the for loop for one word; w = [lines, line]
RECURSIVE wrap_word(_, _, _)
wrap_word(w, word, line_length) ==
    IF Len(word) > line_length
    THEN LET lines1 == IF w.line # <<>> THEN Append(w.lines, w.line) ELSE w.lines
         IN wrap_word([lines |-> Append(lines1, PySliceTo(word, line_length)),
                       line |-> <<>>],
                      PySliceFrom(word, line_length), line_length)
    ELSE IF Len(w.line) + Len(word) + 1 > line_length
    THEN [lines |-> Append(w.lines, w.line), line |-> word]
    ELSE [lines |-> w.lines,
          line |-> IF w.line # <<>> THEN w.line \o <<" ">> \o word ELSE word]

RECURSIVE wrap_words(_, _, _, _)
wrap_words(w, words, i, line_length) ==
    IF i > Len(words) THEN Append(w.lines, w.line)
    ELSE wrap_words(wrap_word(w, words[i], line_length), words, i + 1, line_length)

text_wrap(text, line_length) ==
    wrap_words([lines |-> <<>>, line |-> <<>>], split(text), 1, line_length)

----------------------------------------------------------------------------
(* The state the operations work on, as one record *)

Cur == [nodes |-> nodes, current_stream |-> current_stream, node_id |-> node_id,
        reading_mode |-> reading_mode, selected_index |-> selected_index,
        line_in_para |-> line_in_para, current_text |-> current_text,
        cursor_position |-> cursor_position, current_timer |-> current_timer,
        raised |-> raised]

Assign(e) ==
    /\ nodes' = e.nodes
    /\ current_stream' = e.current_stream
    /\ node_id' = e.node_id
    /\ reading_mode' = e.reading_mode
    /\ selected_index' = e.selected_index
    /\ line_in_para' = e.line_in_para
    /\ current_text' = e.current_text
    /\ cursor_position' = e.cursor_position
    /\ current_timer' = e.current_timer
    /\ raised' = e.raised

\* the state is e
Starts(e) ==
    /\ nodes = e.nodes
    /\ current_stream = e.current_stream
    /\ node_id = e.node_id
    /\ reading_mode = e.reading_mode
    /\ selected_index = e.selected_index
    /\ line_in_para = e.line_in_para
    /\ current_text = e.current_text
    /\ cursor_position = e.cursor_position
    /\ current_timer = e.current_timer
    /\ raised = e.raised

\* an uncaught exception: what was assigned before it stays assigned
Raise(e) == [e EXCEPT !.raised = TRUE]

----------------------------------------------------------------------------
(* class Node, class Tree *)

\* Node.__init__: the object, before the parent appends it
Node(text, parent, id, parent_id) ==
    [text |-> text, children |-> <<>>, parent |-> parent,
     id |-> id, parent_id |-> parent_id]

\* Tree.node_at_index, the loop from step i on
RECURSIVE node_at_index_from(_, _, _, _, _)
node_at_index_from(ns, stream, node, i, index) ==
    IF i >= index THEN [ok |-> TRUE, node |-> node]
    ELSE IF ~PyIndexOk(stream, i) THEN [ok |-> FALSE, node |-> node]
    ELSE IF ~PyIndexOk(ns[node].children, PyIndex(stream, i))
    THEN [ok |-> FALSE, node |-> node]
    ELSE node_at_index_from(ns, stream,
                            PyIndex(ns[node].children, PyIndex(stream, i)),
                            i + 1, index)

\* Tree.node_at_index: ok = FALSE is IndexError
node_at_index(ns, stream, index) == node_at_index_from(ns, stream, 1, 0, index)

\* grow that appends to the stream without cutting it at index first
grow_keeps_stream(e, text, index) ==
    LET selected_node == node_at_index(e.nodes, e.current_stream, index) IN
    IF ~selected_node.ok THEN Raise(e)
    ELSE LET p == selected_node.node
             new_node == Node(text, p, e.node_id, e.nodes[p].id)
         IN [e EXCEPT
               !.current_stream = @ \o <<Len(e.nodes[p].children)>>,
               !.nodes = Append([@ EXCEPT ![p].children = Append(@, Len(e.nodes) + 1)],
                                new_node),
               !.node_id = @ + 1]

\* Tree.grow
grow(e, text, index) ==
    LET selected_node == node_at_index(e.nodes, e.current_stream, index) IN
    IF ~selected_node.ok THEN Raise(e)
    ELSE LET p == selected_node.node
             new_node == Node(text, p, e.node_id, e.nodes[p].id)
         IN [e EXCEPT
               !.current_stream = PySliceTo(@, index) \o <<Len(e.nodes[p].children)>>,
               !.nodes = Append([@ EXCEPT ![p].children = Append(@, Len(e.nodes) + 1)],
                                new_node),
               !.node_id = @ + 1]

\* the inner loop of switch_stream without "if leaf_explore: index += 1"
RECURSIVE switch_descend_keeps_index(_, _, _, _, _, _)
switch_descend_keeps_index(ns, stream, node, increment, leaf_explore, index) ==
    IF ns[node].children = <<>> THEN [stream |-> stream, index |-> index]
    ELSE LET k == IF increment >= 0 THEN 0 ELSE Len(ns[node].children) - 1
         IN switch_descend_keeps_index(ns, Append(stream, k),
                                       PyIndex(ns[node].children, k),
                                       increment, leaf_explore, index)

\* the inner loop of switch_stream as an "if": one level of descent
switch_descend_once(ns, stream, node, increment, leaf_explore, index) ==
    IF ns[node].children = <<>> THEN [stream |-> stream, index |-> index]
    ELSE LET k == IF increment >= 0 THEN 0 ELSE Len(ns[node].children) - 1
         IN [stream |-> Append(stream, k),
             index |-> IF leaf_explore THEN index + 1 ELSE index]

\* the inner loop of switch_stream taking the first child whatever the
\* direction
RECURSIVE switch_descend_first(_, _, _, _, _, _)
switch_descend_first(ns, stream, node, increment, leaf_explore, index) ==
    IF ns[node].children = <<>> THEN [stream |-> stream, index |-> index]
    ELSE switch_descend_first(ns, Append(stream, 0), PyIndex(ns[node].children, 0),
                              increment, leaf_explore,
                              IF leaf_explore THEN index + 1 ELSE index)

\* Tree.switch_stream, the inner loop "while node.children"
RECURSIVE switch_descend(_, _, _, _, _, _)
switch_descend(ns, stream, node, increment, leaf_explore, index) ==
    IF ns[node].children = <<>> THEN [stream |-> stream, index |-> index]
    ELSE LET k == IF increment >= 0 THEN 0 ELSE Len(ns[node].children) - 1
         IN switch_descend(ns, Append(stream, k), PyIndex(ns[node].children, k),
                           increment, leaf_explore,
                           IF leaf_explore THEN index + 1 ELSE index)

\* Tree.switch_stream, the outer loop "while index > 1"
RECURSIVE switch_search(_, _, _, _, _)
switch_search(e, index, increment, leaf_explore, original_index) ==
    IF ~(index > 1) THEN [st |-> e, ret |-> original_index]
    ELSE LET parent == node_at_index(e.nodes, e.current_stream, index - 1) IN
         IF ~parent.ok \/ ~PyIndexOk(e.current_stream, index - 1)
         THEN [st |-> Raise(e), ret |-> original_index]
         ELSE LET new_stream_at_index == PyIndex(e.current_stream, index - 1) + increment
                  children == e.nodes[parent.node].children
              IN IF new_stream_at_index >= 0 /\ new_stream_at_index < Len(children)
                 THEN LET d == switch_descend(e.nodes,
                                   PySliceTo(e.current_stream, index - 1)
                                       \o <<new_stream_at_index>>,
                                   PyIndex(children, new_stream_at_index),
                                   increment, leaf_explore, index)
                      IN [st |-> [e EXCEPT !.current_stream = d.stream],
                          ret |-> d.index]
                 ELSE switch_search(e, index - 1, increment, leaf_explore,
                                    original_index)

\* switch_stream ending in "return index" where no sibling was found
switch_stream_returns_index(e, index, increment, leaf_explore) ==
    LET r == switch_search(e, index, increment,
                           leaf_explore \/ index = Len(e.current_stream), index)
    IN IF r.st = e THEN [st |-> e, ret |-> Min(index, 1)] ELSE r

\* Tree.switch_stream: the state after the call and the returned index.
\* "index is len(...)" compares small ints, for which CPython's "is" is "==".
switch_stream(e, index, increment, leaf_explore) ==
    switch_search(e, index, increment,
                  leaf_explore \/ index = Len(e.current_stream), index)

\* Tree.get_stream, the loop from step i on (ok = FALSE is IndexError)
RECURSIVE get_stream_from(_, _, _, _, _)
get_stream_from(ns, stream, node, i, acc) ==
    IF i > Len(stream) THEN [ok |-> TRUE, stream |-> acc]
    ELSE IF ~PyIndexOk(ns[node].children, stream[i]) THEN [ok |-> FALSE, stream |-> acc]
    ELSE LET n == Len(ns[node].children)
             child == PyIndex(ns[node].children, stream[i])
         IN get_stream_from(ns, stream, child, i + 1,
                Append(acc, [text |-> ns[child].text, num_before |-> stream[i],
                             num_after |-> n - stream[i] - 1]))

get_stream(ns, stream) == get_stream_from(ns, stream, 1, 1, <<>>)

----------------------------------------------------------------------------
(* class Editor *)

\* Editor.update_display, as far as the state goes: generate_display walks
\* the current stream (Tree.get_stream_with_siblings, Tree.get_stream and
\* Tree.node_at_index(selected_index) for a selected_index in 1..len), which
\* raises IndexError when the stream names a child that does not exist
update_display(e) ==
    IF get_stream(e.nodes, e.current_stream).ok THEN e ELSE Raise(e)

\* Editor.lines_in_current_para: ok = FALSE is IndexError
lines_in_current_para(e) ==
    LET s == get_stream(e.nodes, e.current_stream) IN
    IF ~s.ok \/ ~PyIndexOk(s.stream, e.selected_index - 1)
    THEN [ok |-> FALSE, n |-> 0]
    ELSE [ok |-> TRUE,
          n |-> 1 + Len(text_wrap(PyIndex(s.stream, e.selected_index - 1).text,
                                  column_width))]

\* Editor.set_reading_mode
set_reading_mode(e) ==
    LET e1 == [e EXCEPT !.reading_mode = TRUE, !.line_in_para = 0,
                        !.current_text = <<>>, !.cursor_position = 0,
                        !.selected_index = @ + 1]
    IN IF e1.selected_index > Len(e1.current_stream)
       THEN LET r == switch_stream(e1, e1.selected_index - 1, 1, TRUE)
            IN IF r.st.raised THEN r.st
               ELSE [r.st EXCEPT !.selected_index = 1,
                                 !.current_timer = initial_timer]
       ELSE [e1 EXCEPT !.current_timer = initial_timer]

\* Editor.prev_line
prev_line(e) ==
    IF e.reading_mode
    THEN LET e1 == [e EXCEPT !.line_in_para = @ - 1] IN
         IF e1.line_in_para = -1
         THEN IF e1.selected_index = 1
              THEN [e1 EXCEPT !.line_in_para = 0]
              ELSE LET e2 == [e1 EXCEPT !.selected_index = @ - 1]
                       l == lines_in_current_para(e2)
                   IN IF ~l.ok THEN Raise(e2)
                      ELSE [e2 EXCEPT !.line_in_para = l.n - 1]
         ELSE e1
    ELSE LET e1 == [e EXCEPT !.reading_mode = TRUE]
             l == lines_in_current_para(e1)
         IN IF ~l.ok THEN Raise(e1)
            ELSE [e1 EXCEPT !.line_in_para = l.n - 1]

\* Editor.next_para
next_para(e, keep_in_reading_mode) ==
    LET e1 == [e EXCEPT !.line_in_para = 0] IN
    IF e1.selected_index = Len(e1.current_stream)
    THEN IF keep_in_reading_mode THEN e1
         ELSE [e1 EXCEPT !.reading_mode = FALSE]
    ELSE [e1 EXCEPT !.selected_index = @ + 1]

\* Editor.next_line
next_line(e) ==
    IF e.reading_mode
    THEN LET e1 == [e EXCEPT !.line_in_para = @ + 1]
             l == lines_in_current_para(e1)
         IN IF ~l.ok THEN Raise(e1)
            ELSE IF e1.line_in_para >= l.n THEN next_para(e1, FALSE)
            ELSE e1
    ELSE LET e1 == [e EXCEPT !.current_timer = @ - 1] IN
         IF e1.current_timer = 0 THEN set_reading_mode(e1) ELSE e1

\* Editor.prev_para
prev_para(e) ==
    LET e1 == [e EXCEPT !.line_in_para = 0] IN
    IF e1.selected_index > 1 THEN [e1 EXCEPT !.selected_index = @ - 1] ELSE e1

\* Editor.submit_para
submit_para(e) ==
    LET e1 == grow(e, e.current_text, e.selected_index) IN
    IF e1.raised THEN e1
    ELSE [e1 EXCEPT !.selected_index = @ + 1, !.current_text = <<>>,
                    !.cursor_position = 0, !.current_timer = initial_timer]

\* self.selected_index = self.tree.switch_stream(self.selected_index, increment)
select_switch(e, increment) ==
    LET r == switch_stream(e, e.selected_index, increment, FALSE) IN
    IF r.st.raised THEN r.st ELSE [r.st EXCEPT !.selected_index = r.ret]

\* the loop of KEY_ESCAPE: prev_line, n times
RECURSIVE prev_lines(_, _)
prev_lines(e, n) ==
    IF n = 0 \/ e.raised THEN e ELSE prev_lines(prev_line(e), n - 1)

(* Keystrokes of blessed: a named key, a character, or the empty keystroke
   inkey returns when the timeout expires *)
KeyName(name) == [is_sequence |-> TRUE, name |-> name, ch |-> ""]
KeyCh(c) == [is_sequence |-> FALSE, name |-> "", ch |-> c]
Timeout == [is_sequence |-> FALSE, name |-> "", ch |-> ""]

\* Editor.handle_keypress, key.name == "KEY_ENTER"
key_enter(e) ==
    IF e.reading_mode THEN [e EXCEPT !.reading_mode = FALSE]
    ELSE IF e.current_text # <<>> THEN submit_para(e)
    ELSE IF e.selected_index < Len(e.current_stream) THEN set_reading_mode(e)
    ELSE e

\* Editor.handle_keypress, key.name == "KEY_TAB"
key_tab(e) ==
    IF e.reading_mode THEN next_para(e, FALSE)
    ELSE IF e.current_stream # <<>> THEN set_reading_mode(e)
    ELSE e

\* Editor.handle_keypress, key.name == "KEY_BACKSPACE" (no later branch of
\* the elif chain takes the key when the text is empty or in reading mode)
key_backspace(e) ==
    IF e.current_text # <<>> /\ ~e.reading_mode
    THEN [e EXCEPT
            !.current_text = PySliceTo(@, e.cursor_position - 1)
                             \o PySliceFrom(@, e.cursor_position),
            !.cursor_position = Max(0, @ - 1)]
    ELSE e

\* Editor.handle_keypress, key.name == "KEY_RIGHT"
key_right(e) ==
    IF e.reading_mode THEN select_switch(e, 1)
    ELSE [e EXCEPT !.cursor_position = Min(Len(e.current_text), @ + 1)]

\* Editor.handle_keypress, key.name == "KEY_LEFT"
key_left(e) ==
    IF e.reading_mode THEN select_switch(e, -1)
    ELSE [e EXCEPT !.cursor_position = Max(0, @ - 1)]

\* Editor.handle_keypress, key.name == "KEY_ESCAPE"
key_escape(e) ==
    IF ~e.reading_mode
    THEN LET e1 == IF e.current_text # <<>> THEN submit_para(e) ELSE e
         IN prev_lines(e1, 1 + Len(text_wrap(e1.current_text, column_width)))
    ELSE e

\* Editor.handle_keypress, a named key: the if/elif chain
handle_sequence(e, name) ==
    IF name = "KEY_ENTER" THEN key_enter(e)
    ELSE IF name = "KEY_TAB" THEN key_tab(e)
    ELSE IF name = "KEY_BACKSPACE" THEN key_backspace(e)
    ELSE IF name = "KEY_RIGHT" THEN key_right(e)
    ELSE IF name = "KEY_LEFT" THEN key_left(e)
    ELSE IF name = "KEY_DOWN" THEN next_line(e)
    ELSE IF name = "KEY_UP" THEN prev_line(e)
    ELSE IF name = "KEY_ESCAPE" THEN key_escape(e)
    ELSE e

\* Editor.handle_keypress, a character; "p" appends to the shuttle, a side
\* buffer that nothing reads and that is not part of the state here
handle_character(e, c) ==
    LET e1 == IF e.reading_mode
              THEN IF c \in {"j", "n"} THEN next_para(e, TRUE)
                   ELSE IF c \in {"k", "e"} THEN prev_para(e)
                   ELSE IF c \in {"h", "m"} THEN select_switch(e, -1)
                   ELSE IF c \in {"l", "i"} THEN select_switch(e, 1)
                   ELSE e
              ELSE e
    IN IF e1.raised THEN e1
       ELSE IF ~e1.reading_mode
       THEN [e1 EXCEPT
               !.current_text = PySliceTo(@, e1.cursor_position) \o <<c>>
                                \o PySliceFrom(@, e1.cursor_position),
               !.cursor_position = @ + 1]
       ELSE e1

\* Editor.handle_keypress
handle_keypress(e, key) ==
    IF key.is_sequence THEN handle_sequence(e, key.name)
    ELSE IF key.ch # "" THEN handle_character(e, key.ch)
    ELSE next_line(e)

\* the try body of the main loop: d is the state after update_display and h
\* the state after inkey and handle_keypress, which run if update_display
\* did not raise
turn(d, h) == IF d.raised THEN d ELSE h

\* Tree.print_tree raises IndexError when the root has no child
print_tree_ok(e) == e.nodes[1].children # <<>>

\* update_display, then Ctrl-C in inkey: the KeyboardInterrupt handler of the
\* main loop
interrupt(e) ==
    LET d == update_display(e)
        e1 == IF d.current_text # <<>> THEN submit_para(d) ELSE d
    IN IF d.raised THEN d
       ELSE IF e1.raised THEN e1
       ELSE IF ~print_tree_ok(e1) THEN Raise(e1)
       ELSE e1

\* the path the module-level load computes: first children down to a leaf
RECURSIVE first_leaf_stream(_, _, _)
first_leaf_stream(ns, node, stream) ==
    IF ns[node].children = <<>> THEN stream
    ELSE first_leaf_stream(ns, PyIndex(ns[node].children, 0), Append(stream, 0))

\* Editor.__init__ in a new process (Node.node_id = 0, then the root of the
\* Tree() that Editor.__init__ builds takes id 0)
new_editor ==
    [nodes |-> <<Node(<<>>, None, 0, NoneId)>>, current_stream |-> <<>>,
     node_id |-> 1, reading_mode |-> FALSE, selected_index |-> 0,
     line_in_para |-> 0, current_text |-> <<>>, cursor_position |-> 0,
     current_timer |-> initial_timer, raised |-> FALSE]

\* the module-level load: the pickled tree replaces the new one; the class
\* attribute Node.node_id is not part of the pickle
load(ns) ==
    [new_editor EXCEPT !.nodes = ns,
                       !.current_stream = first_leaf_stream(ns, 1, <<>>)]

----------------------------------------------------------------------------
(* The editor: the main loop of ii.py, one action per input event *)

Init ==
    /\ Starts(new_editor)
    /\ pc = "running"

\* the events the model delivers keep the tree and the text within the bounds
WithinBounds(e) ==
    /\ Len(e.nodes) <= MaxNodes + 1
    /\ e.current_text \in PendingTexts
    /\ e.selected_index <= MaxIndex

\* the main loop is waiting in inkey
Running == pc = "running" /\ ~raised

(* One action per input event: a turn of the main loop with the key that
   inkey returns, handled by the branch of handle_keypress for that key *)

KeyEnter ==
    /\ Running
    /\ LET d == update_display(Cur)
           e == turn(d, key_enter(d)) IN
       /\ WithinBounds(e)
       /\ Assign(e)
    /\ UNCHANGED pc

KeyTab ==
    /\ Running
    /\ LET d == update_display(Cur)
           e == turn(d, key_tab(d)) IN
       /\ WithinBounds(e)
       /\ Assign(e)
    /\ UNCHANGED pc

KeyBackspace ==
    /\ Running
    /\ LET d == update_display(Cur)
           e == turn(d, key_backspace(d)) IN
       /\ WithinBounds(e)
       /\ Assign(e)
    /\ UNCHANGED pc

KeyRight ==
    /\ Running
    /\ LET d == update_display(Cur)
           e == turn(d, key_right(d)) IN
       /\ WithinBounds(e)
       /\ Assign(e)
    /\ UNCHANGED pc

KeyLeft ==
    /\ Running
    /\ LET d == update_display(Cur)
           e == turn(d, key_left(d)) IN
       /\ WithinBounds(e)
       /\ Assign(e)
    /\ UNCHANGED pc

KeyDown ==
    /\ Running
    /\ LET d == update_display(Cur)
           e == turn(d, next_line(d)) IN
       /\ WithinBounds(e)
       /\ Assign(e)
    /\ UNCHANGED pc

KeyUp ==
    /\ Running
    /\ LET d == update_display(Cur)
           e == turn(d, prev_line(d)) IN
       /\ WithinBounds(e)
       /\ Assign(e)
    /\ UNCHANGED pc

KeyEscape ==
    /\ Running
    /\ LET d == update_display(Cur)
           e == turn(d, key_escape(d)) IN
       /\ WithinBounds(e)
       /\ Assign(e)
    /\ UNCHANGED pc

\* a typed character
KeyChar ==
    /\ Running
    /\ \E c \in Chars :
         LET d == update_display(Cur)
             e == turn(d, handle_character(d, c)) IN
         /\ WithinBounds(e)
         /\ Assign(e)
    /\ UNCHANGED pc

\* a letter pressed in reading mode
KeyNav ==
    /\ Running
    /\ reading_mode
    /\ \E c \in NavChars :
         LET d == update_display(Cur)
             e == turn(d, handle_character(d, c)) IN
         /\ WithinBounds(e)
         /\ Assign(e)
    /\ UNCHANGED pc

\* inkey timed out (autoscroll_delay): the empty keystroke
TimerExpiry ==
    /\ Running
    /\ LET d == update_display(Cur)
           e == turn(d, next_line(d)) IN
       /\ WithinBounds(e)
       /\ Assign(e)
    /\ UNCHANGED pc

\* Ctrl-C: the except branch of the main loop, then the process ends
Interrupt ==
    /\ Running
    /\ LET e == interrupt(Cur) IN
       /\ WithinBounds(e)
       /\ Assign(e)
    /\ pc' = "exited"

\* the program is started again on the file the last run wrote
Launch ==
    /\ pc = "exited"
    /\ ~raised
    /\ Assign(load(nodes))
    /\ pc' = "running"

Next ==
    \/ KeyEnter
    \/ KeyTab
    \/ KeyBackspace
    \/ KeyRight
    \/ KeyLeft
    \/ KeyDown
    \/ KeyUp
    \/ KeyEscape
    \/ KeyChar
    \/ KeyNav
    \/ TimerExpiry
    \/ Interrupt
    \/ Launch

Spec == Init /\ [][Next]_vars

----------------------------------------------------------------------------
(* The Tree alone: grow and switch_stream called with every index of the
   current stream, as submit_para, set_reading_mode and the arrow keys do *)

TreeGrow ==
    /\ ~raised
    /\ \E index \in 0..Len(current_stream), text \in TreeTexts :
         LET e == grow(Cur, text, index) IN
         /\ Len(e.nodes) <= MaxTreeNodes + 1
         /\ Assign(e)
    /\ UNCHANGED pc

TreeSwitch ==
    /\ ~raised
    /\ \E index \in 0..Len(current_stream), increment \in {1, -1},
          leaf_explore \in BOOLEAN :
         Assign(switch_stream(Cur, index, increment, leaf_explore).st)
    /\ UNCHANGED pc

TreeNext ==
    \/ TreeGrow
    \/ TreeSwitch

TreeSpec == Init /\ [][TreeNext]_vars

----------------------------------------------------------------------------
(* The pending text alone: the keys that edit it in writing mode *)

EditChar ==
    /\ Running
    /\ \E c \in EditChars :
         LET d == update_display(Cur)
             e == turn(d, handle_character(d, c)) IN
         /\ Len(e.current_text) <= MaxEditText
         /\ Assign(e)
    /\ UNCHANGED pc

EditLeft ==
    /\ Running
    /\ LET d == update_display(Cur)
           e == turn(d, key_left(d)) IN
       /\ Len(e.current_text) <= MaxEditText
       /\ Assign(e)
    /\ UNCHANGED pc

EditRight ==
    /\ Running
    /\ LET d == update_display(Cur)
           e == turn(d, key_right(d)) IN
       /\ Len(e.current_text) <= MaxEditText
       /\ Assign(e)
    /\ UNCHANGED pc

EditBackspace ==
    /\ Running
    /\ LET d == update_display(Cur)
           e == turn(d, key_backspace(d)) IN
       /\ Len(e.current_text) <= MaxEditText
       /\ Assign(e)
    /\ UNCHANGED pc

EditNext ==
    \/ EditChar
    \/ EditLeft
    \/ EditRight
    \/ EditBackspace

EditSpec == Init /\ [][EditNext]_vars

----------------------------------------------------------------------------
(* Vocabulary of the claims *)

\* the arena index of the node that the first k entries of stream lead to,
\* for a stream whose first k entries name existing children
RECURSIVE NodeAlong(_, _, _)
NodeAlong(ns, stream, k) ==
    IF k = 0 THEN 1
    ELSE ns[NodeAlong(ns, stream, k - 1)].children[stream[k] + 1]

\* entry i of stream is an existing child index of the node before it
ChildExists(ns, stream, i) ==
    /\ stream[i] >= 0
    /\ stream[i] < Len(ns[NodeAlong(ns, stream, i - 1)].children)

\* the first k entries of stream name existing children
RECURSIVE ValidUpTo(_, _, _)
ValidUpTo(ns, stream, k) ==
    IF k = 0 THEN TRUE
    ELSE ValidUpTo(ns, stream, k - 1) /\ ChildExists(ns, stream, k)

ValidPath(ns, stream) == ValidUpTo(ns, stream, Len(stream))

\* this process has built every node of the tree (nothing was loaded)
NothingLoaded == node_id = Len(nodes)

----------------------------------------------------------------------------
(* C1: in every reachable state of the editor, from an empty or a loaded
   tree, the current path is valid: each path[i] is an existing child index
   of the node reached by following path[0..i) from the root. *)
C1_PathValid == ValidPath(nodes, current_stream)

----------------------------------------------------------------------------
(* C2: no input event raises: in every reachable state in which the main
   loop runs, the events handled so far have completed without an
   IndexError. *)
C2_NoEventRaises == pc = "running" => ~raised

----------------------------------------------------------------------------
(* Claims about Tree.switch_stream: the call is evaluated on the tree and
   the stream of the state, for every depth and direction *)

Directions == {1, -1}

\* the entry of stream at depth d has a sibling in direction dir
SiblingExists(ns, stream, d, dir) ==
    /\ stream[d] + dir >= 0
    /\ stream[d] + dir < Len(ns[NodeAlong(ns, stream, d - 1)].children)

\* switch_stream(d, dir, leaf_explore) on the tree of the state
Switched(d, dir, leaf_explore) == switch_stream(Cur, d, dir, leaf_explore)

\* the call returned and left another stream behind
Moved(r) == ~r.st.raised /\ r.st.current_stream # current_stream

(* C3: switch_stream finds the sibling at every level: for every depth d in
   1..len(path) and direction, if path[d-1]+direction is a valid child index
   of the node at depth d-1, then switch_stream(d, direction) replaces
   path[d-1] by path[d-1]+direction and leaves path[0..d-1) unchanged. *)
C3_SwitchesAtEveryLevel ==
    ValidPath(nodes, current_stream) =>
        \A d \in 1..Len(current_stream), dir \in Directions :
            SiblingExists(nodes, current_stream, d, dir) =>
                LET r == Switched(d, dir, FALSE) IN
                /\ ~r.st.raised
                /\ Len(r.st.current_stream) >= d
                /\ r.st.current_stream[d] = current_stream[d] + dir
                /\ SubSeq(r.st.current_stream, 1, d - 1)
                       = SubSeq(current_stream, 1, d - 1)

(* C4: when switch_stream(depth, direction, leaf_explore = False) is called
   with depth less than the path length and a switch happens (at the given
   level or at an ancestor level), the returned depth equals the depth
   argument.  Stated for the switches after which the path still has that
   depth, the case in which the docstring of switch_stream promises the
   same ("If the tree terminates before it descends to current index, it
   returns the index corresponding to the leaf"). *)
C4_ReturnsOriginalDepth ==
    ValidPath(nodes, current_stream) =>
        \A d \in 1..(Len(current_stream) - 1), dir \in Directions :
            LET r == Switched(d, dir, FALSE) IN
            (Moved(r) /\ Len(r.st.current_stream) >= d) => r.ret = d

\* no level from depth d up to the top has a sibling in direction dir
NoSiblingUpTo(d, dir) ==
    \A j \in 1..d : ~SiblingExists(nodes, current_stream, j, dir)

\* every node of the current path is an only child
OnlyChildLineage ==
    \A j \in 1..Len(current_stream) :
        Len(nodes[NodeAlong(nodes, current_stream, j - 1)].children) = 1

(* C5: if no level from depth up to the top has a valid sibling in the given
   direction, switch_stream leaves the path (and the tree) unchanged and
   returns the original depth; on a lineage of only children every call, in
   either direction, leaves the state as it was, so that repeated calls do. *)
C5_NoSiblingNoOp ==
    ValidPath(nodes, current_stream) =>
        \A d \in 0..Len(current_stream), dir \in Directions, leaf \in BOOLEAN :
            LET r == Switched(d, dir, leaf) IN
            /\ NoSiblingUpTo(d, dir) => r.st = Cur /\ r.ret = d
            /\ OnlyChildLineage => r.st = Cur

\* a direction without a sibling at any level while the other direction has
\* one, on a path of three levels
C5_Witness ==
    /\ ValidPath(nodes, current_stream)
    /\ Len(current_stream) >= 3
    /\ \E dir \in Directions :
         /\ NoSiblingUpTo(Len(current_stream), dir)
         /\ \E j \in 2..Len(current_stream) :
              SiblingExists(nodes, current_stream, j, -dir)
         /\ Switched(Len(current_stream), dir, FALSE).st = Cur
         /\ Moved(Switched(Len(current_stream), -dir, FALSE))

(* C6: direction symmetry: if switch_stream(depth, +1, False) changes the
   path and the following switch_stream(depth, -1, False) with the same depth
   changes it too, the branch index at position depth of the path is the
   same as before the two calls. *)
C6_DirectionSymmetry ==
    ValidPath(nodes, current_stream) =>
        \A d \in 1..Len(current_stream) :
            LET r1 == Switched(d, 1, FALSE)
                r2 == switch_stream(r1.st, d, -1, FALSE)
            IN (/\ Moved(r1)
                /\ ~r2.st.raised
                /\ r2.st.current_stream # r1.st.current_stream)
               => /\ Len(r2.st.current_stream) >= d
                  /\ r2.st.current_stream[d] = current_stream[d]

\* both moves succeed at an ancestor level, and the branch index at depth d
\* is not the first one
C6_Witness ==
    /\ ValidPath(nodes, current_stream)
    /\ \E d \in 2..Len(current_stream) :
         LET r1 == Switched(d, 1, FALSE)
             r2 == switch_stream(r1.st, d, -1, FALSE)
         IN /\ Moved(r1)
            /\ ~r2.st.raised
            /\ r2.st.current_stream # r1.st.current_stream
            /\ current_stream[d] >= 1
            /\ ~SiblingExists(nodes, current_stream, d, 1)
            /\ r2.st.current_stream = current_stream

----------------------------------------------------------------------------
\* node k is as it was, but for children appended after those it had
KeptByStep(k) ==
    /\ nodes'[k].text = nodes[k].text
    /\ nodes'[k].parent = nodes[k].parent
    /\ nodes'[k].id = nodes[k].id
    /\ nodes'[k].parent_id = nodes[k].parent_id
    /\ Len(nodes'[k].children) >= Len(nodes[k].children)
    /\ SubSeq(nodes'[k].children, 1, Len(nodes[k].children)) = nodes[k].children

\* the step is grow(current_text, selected_index)
GrownByStep ==
    LET p == NodeAlong(nodes, current_stream, selected_index)
        new == Len(nodes') IN
    /\ new = Len(nodes) + 1
    /\ nodes'[new].text = current_text
    /\ nodes'[new].parent = p
    /\ nodes'[new].children = <<>>
    /\ nodes'[p].children = Append(nodes[p].children, new)
    /\ \A k \in 1..Len(nodes) : k # p => nodes'[k] = nodes[k]
    /\ current_stream' = SubSeq(current_stream, 1, selected_index)
                             \o <<Len(nodes[p].children)>>
    /\ Len(current_stream') = selected_index + 1

(* C7: grow(text, atDepth) with atDepth <= path length adds exactly one
   node, as the last child of the node at atDepth; the path becomes the old
   path truncated to atDepth followed by the new child's branch index; every
   other node keeps its text, parent, id and position among its siblings; no
   event deletes or reorders nodes.  (The editor calls grow(current_text,
   selected_index).) *)
C7_GrowAddsOneNode ==
    [][/\ Len(nodes') \in {Len(nodes), Len(nodes) + 1}
       /\ \A k \in 1..Len(nodes) : KeptByStep(k)
       /\ Len(nodes') = Len(nodes) => nodes' = nodes
       /\ (/\ Len(nodes') # Len(nodes)
           /\ selected_index \in 0..Len(current_stream)
           /\ ValidPath(nodes, current_stream)) => GrownByStep]_vars

\* a fragment was submitted at a depth above the end of the path: a branch
C7_Witness ==
    /\ NothingLoaded
    /\ ~raised
    /\ Len(nodes) = 4
    /\ current_stream = <<0, 1>>
    /\ Len(nodes[2].children) = 2

----------------------------------------------------------------------------
(* C8: node identifiers are unique and increasing in every reachable tree,
   also one saved by a run, loaded by a later run and grown further: no two
   nodes have the same id, and a node that grow creates has an id greater
   than that of every node already in the tree. *)
C8_IdsIncrease ==
    \A i, j \in 1..Len(nodes) : i < j => nodes[i].id < nodes[j].id

----------------------------------------------------------------------------
\* KEY_BACKSPACE arrives in the state
Backspaced == handle_keypress(Cur, KeyName("KEY_BACKSPACE"))

\* text without its character number k
Without(text, k) == SubSeq(text, 1, k - 1) \o SubSeq(text, k + 1, Len(text))

(* C9: Backspace in writing mode with nonempty text deletes exactly the
   character before cursor_position and moves the cursor one left; with
   cursor_position 0 it leaves current_text and cursor_position unchanged;
   on empty text it is a no-op; it never makes current_text longer. *)
C9_BackspaceDeletesBefore ==
    (~reading_mode /\ ~raised) =>
        /\ Len(Backspaced.current_text) <= Len(current_text)
        /\ current_text = <<>> => Backspaced = Cur
        /\ cursor_position = 0 => Backspaced = Cur
        /\ (current_text # <<>> /\ cursor_position >= 1) =>
               /\ Backspaced.current_text = Without(current_text, cursor_position)
               /\ Backspaced.cursor_position = cursor_position - 1

----------------------------------------------------------------------------
\* k consecutive turns of the main loop in which inkey times out
RECURSIVE Ticks(_, _)
Ticks(e, k) ==
    IF k = 0 THEN e
    ELSE LET d == update_display(e)
             n == turn(d, handle_keypress(d, Timeout))
         IN IF n.raised THEN n ELSE Ticks(n, k - 1)

(* C10: autoscroll countdown: from writing mode with current_timer equal to
   the initial value N, a run of consecutive timer expiries keeps the editor
   in writing mode for the first N-1 of them and switches it to reading mode
   at the N-th, which resets current_timer to N. *)
C10_AutoscrollCountdown ==
    (Running /\ ~reading_mode /\ current_timer = initial_timer
       /\ ~update_display(Cur).raised) =>
        /\ \A k \in 1..(initial_timer - 1) :
               ~Ticks(Cur, k).raised /\ ~Ticks(Cur, k).reading_mode
        /\ ~Ticks(Cur, initial_timer).raised
        /\ Ticks(Cur, initial_timer).reading_mode
        /\ Ticks(Cur, initial_timer).current_timer = initial_timer

----------------------------------------------------------------------------
\* the paths of the leaves below children i.. of node, left to right, each
\* path starting with prefix; a node without children is its own leaf
RECURSIVE LeafPathsOf(_, _, _, _)
LeafPathsOf(ns, node, prefix, i) ==
    IF ns[node].children = <<>> THEN <<prefix>>
    ELSE IF i > Len(ns[node].children) THEN <<>>
    ELSE LeafPathsOf(ns, ns[node].children[i], Append(prefix, i - 1), 1)
             \o LeafPathsOf(ns, node, prefix, i + 1)

\* the paths of all leaves of the tree in left-to-right order
LeafPaths(ns) == LeafPathsOf(ns, 1, <<>>, 1)

\* the current path leads to a leaf
EndsAtLeaf ==
    /\ ValidPath(nodes, current_stream)
    /\ nodes[NodeAlong(nodes, current_stream, Len(current_stream))].children = <<>>

\* the path of the leaf after the current one, the current path at the last
NextLeafPath ==
    LET L == LeafPaths(nodes)
        i == CHOOSE k \in 1..Len(L) : L[k] = current_stream
    IN IF i < Len(L) THEN L[i + 1] ELSE current_stream

\* writing mode, with selected_index within the path that ends at a leaf
WritingWithinPath ==
    /\ Running
    /\ ~reading_mode
    /\ EndsAtLeaf
    /\ selected_index \in 0..Len(current_stream)

(* C11: set_reading_mode advances selected_index by one; when the advanced
   value exceeds the path length, selected_index becomes 1 and the path
   becomes the path to the next leaf in left-to-right order of the whole
   tree (unchanged at the last leaf); otherwise the path is unchanged.
   Stated for the writing-mode states whose selected_index is within the
   path. *)
C11_ReadingModeNextLeaf ==
    WritingWithinPath =>
        LET r == set_reading_mode(Cur) IN
        /\ ~r.raised
        /\ r.reading_mode
        /\ IF selected_index + 1 > Len(current_stream)
           THEN r.selected_index = 1 /\ r.current_stream = NextLeafPath
           ELSE r.selected_index = selected_index + 1
                /\ r.current_stream = current_stream

----------------------------------------------------------------------------
(* The editor while one fragment is written and submitted: fragments long
   enough for text_wrap to break them into several lines *)

\* the longest fragment typed: one character more than column_width
MaxEscText == 36
\* the fragments submitted
MaxEscNodes == 1

EscChar ==
    /\ Running
    /\ ~reading_mode
    /\ LET d == update_display(Cur)
           e == turn(d, handle_character(d, "a")) IN
       /\ Len(e.current_text) <= MaxEscText
       /\ Assign(e)
    /\ UNCHANGED pc

EscEscape ==
    /\ Running
    /\ LET d == update_display(Cur)
           e == turn(d, key_escape(d)) IN
       /\ Len(e.nodes) <= MaxEscNodes + 1
       /\ Assign(e)
    /\ UNCHANGED pc

EscEnter ==
    /\ Running
    /\ LET d == update_display(Cur)
           e == turn(d, key_enter(d)) IN
       /\ Len(e.nodes) <= MaxEscNodes + 1
       /\ Assign(e)
    /\ UNCHANGED pc

EscNext ==
    \/ EscChar
    \/ EscEscape
    \/ EscEnter

EscSpec == Init /\ [][EscNext]_vars

\* KEY_ESCAPE arrives in the state
Escaped == key_escape(Cur)

(* C12: Escape in writing mode with nonempty pending text commits the text
   as a new node and leaves the editor, for every length of the text, in
   reading mode with the just-submitted node selected and line_in_para = 0. *)
C12_EscapeSelectsStart ==
    (WritingWithinPath /\ current_text # <<>>) =>
        /\ ~Escaped.raised
        /\ Escaped.reading_mode
        /\ Len(Escaped.nodes) = Len(nodes) + 1
        /\ Escaped.nodes[Len(nodes) + 1].text = current_text
        /\ ValidPath(Escaped.nodes, Escaped.current_stream)
        /\ Escaped.selected_index \in 1..Len(Escaped.current_stream)
        /\ NodeAlong(Escaped.nodes, Escaped.current_stream, Escaped.selected_index)
               = Len(nodes) + 1
        /\ Escaped.line_in_para = 0

----------------------------------------------------------------------------
\* the step of the main loop changes the mode, and the handler returns
ModeChangedByStep ==
    /\ pc = "running"
    /\ pc' = "running"
    /\ ~raised'
    /\ reading_mode' # reading_mode

(* C13: every transition between writing mode and reading mode, in either
   direction and whichever event causes it, resets line_in_para to 0,
   current_text to empty, cursor_position to 0 and current_timer to the
   initial value. *)
C13_ModeChangeResets ==
    [][ModeChangedByStep =>
          /\ line_in_para' = 0
          /\ current_text' = <<>>
          /\ cursor_position' = 0
          /\ current_timer' = initial_timer]_vars

----------------------------------------------------------------------------
(* Tree.export_tree_to_csv: the rows handed to the csv writer.  The
   creation_time column is left out: time is not part of the state. *)

RECURSIVE collect_node_data(_, _, _, _, _)
RECURSIVE collect_children(_, _, _, _, _)

\* Tree.collect_node_data, the loop "for child in node.children" from child i
collect_children(ns, node, i, data, depth) ==
    IF i > Len(ns[node].children) THEN data
    ELSE collect_children(ns, node, i + 1,
             collect_node_data(ns, ns[node].children[i], ns[node].text,
                               data, depth + 1),
             depth)

\* Tree.collect_node_data
collect_node_data(ns, node, parent_text, data, depth) ==
    collect_children(ns, node, 1,
        Append(data, [node_text |-> ns[node].text, parent_text |-> parent_text,
                      depth |-> depth, node_id |-> ns[node].id,
                      parent_id |-> ns[node].parent_id]),
        depth)

\* Tree.export_tree_to_csv: collect_node_data(self.root, '', data)
export_tree_to_csv(ns) == collect_node_data(ns, 1, <<>>, <<>>, 0)

\* the nodes below node in pre-order, children in creation order
RECURSIVE PreOrderBelow(_, _, _)
PreOrderBelow(ns, node, i) ==
    IF i > Len(ns[node].children) THEN <<>>
    ELSE <<ns[node].children[i]>> \o PreOrderBelow(ns, ns[node].children[i], 1)
             \o PreOrderBelow(ns, node, i + 1)

\* the number of edges between the root and node k
RECURSIVE DepthOf(_, _)
DepthOf(ns, k) == IF k = 1 THEN 0 ELSE 1 + DepthOf(ns, ns[k].parent)

\* the record the export owes to node k
RecordOf(ns, k) ==
    [node_text |-> ns[k].text, parent_text |-> ns[ns[k].parent].text,
     depth |-> DepthOf(ns, k), node_id |-> ns[k].id,
     parent_id |-> ns[k].parent_id]

(* C14: the export yields exactly one record per non-root node and none for
   the root, in pre-order, each record with the node's text, its parent's
   text, its depth (1 for the root's children), its id and its parent's id;
   after grow on an empty tree it yields exactly one record.  Stated for the
   trees the shutdown sequence can export: those with a node. *)
C14_ExportSkipsRoot ==
    (~raised /\ nodes[1].children # <<>>) =>
        LET rows == export_tree_to_csv(nodes)
            order == PreOrderBelow(nodes, 1, 1)
        IN /\ Len(rows) = Len(nodes) - 1
           /\ Len(rows) = Len(order)
           /\ \A i \in 1..Len(order) : rows[i] = RecordOf(nodes, order[i])

----------------------------------------------------------------------------
\* the step is the KeyboardInterrupt handler, entered from inkey after a
\* display that was drawn
InterruptedByStep ==
    /\ pc = "running"
    /\ pc' = "exited"
    /\ ~update_display(Cur).raised

\* the texts of the rows of the tabular export
ExportedTexts(ns) ==
    {export_tree_to_csv(ns)[i].node_text : i \in 1..Len(export_tree_to_csv(ns))}

(* C15: flush on exit: when the main loop is interrupted in any reachable
   state, the initial one included, the shutdown sequence runs to completion:
   nonempty pending text is committed as a node, then the outline, the
   snapshot and the tabular export are produced, and the exported data
   contains the pending text. *)
C15_FlushOnExit ==
    [][InterruptedByStep =>
          /\ ~raised'
          /\ current_text # <<>> =>
                 /\ Len(nodes') = Len(nodes) + 1
                 /\ nodes'[Len(nodes')].text = current_text
                 /\ current_text \in ExportedTexts(nodes')]_vars

----------------------------------------------------------------------------
(* C16: in every reachable state in reading mode selected_index is between 1
   and the length of the current path, so that it names a node of the path;
   in writing mode selected_index never exceeds the path length. *)
C16_SelectedWithinPath ==
    ~raised =>
        /\ reading_mode => selected_index \in 1..Len(current_stream)
        /\ ~reading_mode => selected_index <= Len(current_stream)

----------------------------------------------------------------------------
(* C17: when switch_stream is called with leaf_explore = True, or with depth
   equal to the path length (which forces leaf_explore), and a switch
   happens, the returned depth is the length of the new path. *)
C17_LeafExploreReturnsLength ==
    ValidPath(nodes, current_stream) =>
        \A d \in 1..Len(current_stream), dir \in Directions, leaf \in BOOLEAN :
            (leaf \/ d = Len(current_stream)) =>
                LET r == Switched(d, dir, leaf) IN
                Moved(r) => r.ret = Len(r.st.current_stream)

\* a switch at an ancestor level whose new path is shorter than the depth
\* asked for, and one whose new path is longer
C17_Witness ==
    /\ ValidPath(nodes, current_stream)
    /\ \E d \in 1..Len(current_stream), dir \in Directions :
         LET r == Switched(d, dir, TRUE) IN
         /\ Moved(r)
         /\ ~SiblingExists(nodes, current_stream, d, dir)
         /\ r.ret < d
         /\ r.ret = Len(r.st.current_stream)
    /\ \E d \in 1..Len(current_stream), dir \in Directions :
         LET r == Switched(d, dir, TRUE) IN
         /\ Moved(r)
         /\ r.ret > d
         /\ r.ret = Len(r.st.current_stream)

----------------------------------------------------------------------------
\* the first level at which the streams old and new differ
FirstDiff(old, new) ==
    CHOOSE j \in 1..(Len(old) + 1) :
        /\ \A i \in 1..(j - 1) : i <= Len(new) /\ new[i] = old[i]
        /\ j > Len(old) \/ j > Len(new) \/ new[j] # old[j]

\* entry i of stream is the first child for dir >= 0, the last for dir < 0
Extremal(ns, stream, i, dir) ==
    stream[i] = IF dir >= 0 THEN 0
                ELSE Len(ns[NodeAlong(ns, stream, i - 1)].children) - 1

(* C18: after every switch_stream call that changes the path at level j,
   whatever leaf_explore is, the new path keeps path[0..j-1) unchanged, ends
   at a node with no children, and every index below level j is extremal: 0
   when the direction is >= 0 and the last child index when it is < 0. *)
C18_SwitchDescendsToLeaf ==
    ValidPath(nodes, current_stream) =>
        \A d \in 1..Len(current_stream), dir \in Directions, leaf \in BOOLEAN :
            LET r == Switched(d, dir, leaf)
                new == r.st.current_stream
                j == FirstDiff(current_stream, new)
            IN Moved(r) =>
                  /\ j <= d
                  /\ j <= Len(new)
                  /\ ValidPath(nodes, new)
                  /\ nodes[NodeAlong(nodes, new, Len(new))].children = <<>>
                  /\ \A i \in (j + 1)..Len(new) : Extremal(nodes, new, i, dir)

\* a switch to the left without leaf_explore that descends below its level to
\* a last child that is not the first one
C18_Witness ==
    /\ ValidPath(nodes, current_stream)
    /\ \E d \in 1..Len(current_stream) :
         LET r == Switched(d, -1, FALSE)
             new == r.st.current_stream
         IN /\ Moved(r)
            /\ d < Len(current_stream)
            /\ Len(new) > d
            /\ new[Len(new)] >= 1
            /\ nodes[NodeAlong(nodes, new, Len(new))].children = <<>>

----------------------------------------------------------------------------
(* C19: the root has at most one child in every reachable state, also in
   runs that start from a saved and loaded tree and then submit new text. *)
C19_RootHasOneChild == Len(nodes[1].children) <= 1

----------------------------------------------------------------------------
(* C20: in every reachable state the current path ends at a leaf: the node
   reached by following the whole path from the root has no children. *)
C20_PathEndsAtLeaf == ~raised => EndsAtLeaf

----------------------------------------------------------------------------
(* The editor left alone: after the last key, inkey only returns by its
   timeout (autoscroll_delay), so a timer expiry that stays possible happens *)

\* the main loop is waiting in inkey and no key will arrive any more
AutoRunning == pc = "autoscroll" /\ ~raised

\* the last key has been handled; the tree has a node
Unattended ==
    /\ Running
    /\ Len(nodes) > 1
    /\ Assign(Cur)
    /\ pc' = "autoscroll"

\* inkey timed out, with no key to come
AutoTimer ==
    /\ AutoRunning
    /\ \E e \in {turn(update_display(Cur), next_line(update_display(Cur)))} :
         Assign(e)
    /\ UNCHANGED pc

AutoNext ==
    \/ Next
    \/ Unattended
    \/ AutoTimer

AutoSpec == Init /\ [][AutoNext]_vars /\ WF_vars(AutoTimer)

(* C21: autoscroll never gets stuck: with a non-empty tree, from any
   reachable state, if only timer expiries arrive from then on, the editor
   enters reading mode and from reading mode returns to writing mode, again
   and again forever.  (Once pc is "autoscroll" it stays so.) *)
C21_AutoscrollAlternates ==
    <>[](pc = "autoscroll") => ([]<>reading_mode /\ []<>(~reading_mode))

====
